---- MODULE Spec2Model ----
(***************************************************************************)
(* Model of batch/campsite-weather-spark-s3/raw_noaa_batch_s3.py: the      *)
(* NOAA fixed-width record pipeline (decode, enrich with the station       *)
(* directory, filter incomplete records, window and group).                *)
(*                                                                         *)
(* Python values are modelled as functions so that any two of them can be  *)
(* compared: None, floats (a decimal m / 10^e), datetimes, raised          *)
(* exceptions and dicts.  A str is a sequence of one-character strings.    *)
(* Times are counted in minutes (all parsed timestamps have minute         *)
(* resolution).                                                            *)
(***************************************************************************)
EXTENDS Integers, Sequences, FiniteSets, Bags, TLC

VARIABLES pc, stations_file, config_ok, STATION_LOCATIONS, input, raw_data,
          cur, partial, merged, groups, failure, arg, ret

vars == <<pc, stations_file, config_ok, STATION_LOCATIONS, input, raw_data,
          cur, partial, merged, groups, failure, arg, ret>>

(***************************************************************************)
(* Bounds of the model.                                                    *)
(***************************************************************************)
MaxLines == 2
NumWorkers == 2
MaxTs == 700

(***************************************************************************)
(* Python values.                                                          *)
(***************************************************************************)
None == [t |-> "None"]

Raise(exc) == [t |-> "raise", exc |-> exc]

IsRaise(v) == v.t = "raise"

\* m / 10^e, kept in lowest terms so that equal floats are equal values
RECURSIVE Float(_, _)
Float(m, e) ==
    IF e > 0 /\ m % 10 = 0 THEN Float(m \div 10, e - 1)
    ELSE [t |-> "float", m |-> m, e |-> e]

Str(s) == [t |-> "str", s |-> s]

\* a dict with the items of the function f
Dict(f) == [t |-> "dict", d |-> f]

\* dict.get(key, default)
DictGet(d, key, default) == IF key \in DOMAIN d.d THEN d.d[key] ELSE default

\* data[a:b] of a str: both ends are clamped to the length, never raises
Slice(data, a, b) ==
    LET hi == IF b < Len(data) THEN b ELSE Len(data)
    IN  IF a + 1 > hi THEN << >> ELSE SubSeq(data, a + 1, hi)

Digits == {"0", "1", "2", "3", "4", "5", "6", "7", "8", "9"}

DigitVal(c) ==
    CASE c = "0" -> 0 [] c = "1" -> 1 [] c = "2" -> 2 [] c = "3" -> 3
      [] c = "4" -> 4 [] c = "5" -> 5 [] c = "6" -> 6 [] c = "7" -> 7
      [] c = "8" -> 8 [] c = "9" -> 9

IsSpace(c) == c = " "

AllDigits(s) == \A i \in 1..Len(s) : s[i] \in Digits

\* int() of a run of decimal digits
RECURSIVE DigitsVal(_)
DigitsVal(s) ==
    IF Len(s) = 0 THEN 0
    ELSE 10 * DigitsVal(SubSeq(s, 1, Len(s) - 1)) + DigitVal(s[Len(s)])

RECURSIVE Pow10(_)
Pow10(n) == IF n = 0 THEN 1 ELSE 10 * Pow10(n - 1)

\* str.strip() for the whitespace of the inputs (blanks)
RECURSIVE Strip(_)
Strip(s) ==
    IF Len(s) = 0 THEN s
    ELSE IF IsSpace(s[1]) THEN Strip(Tail(s))
    ELSE IF IsSpace(s[Len(s)]) THEN Strip(SubSeq(s, 1, Len(s) - 1))
    ELSE s

(***************************************************************************)
(* float(x) of Python.  For a str: surrounding whitespace is stripped,     *)
(* then an optional sign and a decimal literal with at least one digit     *)
(* and at most one point; anything else raises ValueError.  (Exponent,     *)
(* underscore, inf and nan literals use characters that the modelled       *)
(* inputs do not contain.)  float(None) raises TypeError; a number is      *)
(* returned as it is.                                                      *)
(***************************************************************************)
PyFloatStr(s) ==
    LET b == Strip(s)
        signed == Len(b) > 0 /\ b[1] \in {"+", "-"}
        u == IF signed THEN Tail(b) ELSE b
        points == {i \in 1..Len(u) : u[i] = "."}
        p == IF points = {} THEN Len(u) + 1 ELSE CHOOSE i \in points : TRUE
        ip == SubSeq(u, 1, p - 1)
        fp == IF p >= Len(u) THEN << >> ELSE SubSeq(u, p + 1, Len(u))
        ok == /\ Cardinality(points) <= 1
              /\ AllDigits(ip) /\ AllDigits(fp)
              /\ Len(ip) + Len(fp) > 0
        mag == DigitsVal(ip) * Pow10(Len(fp)) + DigitsVal(fp)
    IN  IF ~ok THEN Raise("ValueError")
        ELSE Float(IF signed /\ b[1] = "-" THEN 0 - mag ELSE mag, Len(fp))

PyFloat(x) ==
    IF x = None THEN Raise("TypeError")
    ELSE IF x.t = "str" THEN PyFloatStr(x.s)
    ELSE x

\* x / 10.0
DivTen(x) == Float(x.m, x.e + 1)

(***************************************************************************)
(* datetime.datetime.strptime(s, "%Y%m%d %H%M").  The format compiles to   *)
(* the regular expression                                                  *)
(*   (\d\d\d\d)(1[0-2]|0[1-9]|[1-9])(3[0-1]|[1-2]\d|0[1-9]|[1-9]| [1-9])   *)
(*   \s+(2[0-3]|[0-1]\d|\d)([0-5]\d|\d)                                    *)
(* matched at the start of s; the first match in backtracking order is     *)
(* taken, text left over after it raises ValueError, and so does a date    *)
(* that datetime() rejects.                                                *)
(***************************************************************************)
IsLeap(y) == (y % 4 = 0 /\ y % 100 # 0) \/ y % 400 = 0

DaysInMonth(y, m) ==
    IF m = 2 THEN (IF IsLeap(y) THEN 29 ELSE 28)
    ELSE IF m \in {4, 6, 9, 11} THEN 30 ELSE 31

MatchMonth(s) ==
    \/ Len(s) = 2 /\ s[1] = "1" /\ s[2] \in {"0", "1", "2"}
    \/ Len(s) = 2 /\ s[1] = "0" /\ s[2] \in Digits \ {"0"}
    \/ Len(s) = 1 /\ s[1] \in Digits \ {"0"}

MatchDay(s) ==
    \/ Len(s) = 2 /\ s[1] = "3" /\ s[2] \in {"0", "1"}
    \/ Len(s) = 2 /\ s[1] \in {"1", "2"} /\ s[2] \in Digits
    \/ Len(s) = 2 /\ s[1] = "0" /\ s[2] \in Digits \ {"0"}
    \/ Len(s) = 1 /\ s[1] \in Digits \ {"0"}
    \/ Len(s) = 2 /\ s[1] = " " /\ s[2] \in Digits \ {"0"}

MatchHour(s) ==
    \/ Len(s) = 2 /\ s[1] = "2" /\ s[2] \in {"0", "1", "2", "3"}
    \/ Len(s) = 2 /\ s[1] \in {"0", "1"} /\ s[2] \in Digits
    \/ Len(s) = 1 /\ s[1] \in Digits

MatchMinute(s) ==
    \/ Len(s) = 2 /\ s[1] \in {"0", "1", "2", "3", "4", "5"} /\ s[2] \in Digits
    \/ Len(s) = 1 /\ s[1] \in Digits

\* the ways the five groups after %Y can split s, as lengths <<m, d, ws, H, M>>
StrpMatches(s) ==
    {l \in {1, 2} \X {1, 2} \X (1..Len(s)) \X {1, 2} \X {1, 2} :
        LET a == 4 + l[1]
            b == a + l[2]
            c == b + l[3]
            d == c + l[4]
            e == d + l[5]
        IN  /\ e <= Len(s)
            /\ AllDigits(SubSeq(s, 1, 4))
            /\ MatchMonth(SubSeq(s, 5, a))
            /\ MatchDay(SubSeq(s, a + 1, b))
            /\ \A i \in (b + 1)..c : IsSpace(s[i])
            /\ MatchHour(SubSeq(s, c + 1, d))
            /\ MatchMinute(SubSeq(s, d + 1, e))}

\* backtracking order: every group tries its longer alternatives first
StrpRank(l, n) == (((l[1] * 3 + l[2]) * (n + 1) + l[3]) * 3 + l[4]) * 3 + l[5]

\* int() of a %d group, which may carry a leading blank
DayVal(s) == IF s[1] = " " THEN DigitVal(s[2]) ELSE DigitsVal(s)

StrpTime(s) ==
    LET ms == StrpMatches(s)
    IN  IF ms = {} THEN Raise("ValueError")
        ELSE
          LET l == CHOOSE x \in ms :
                     \A y \in ms : StrpRank(y, Len(s)) <= StrpRank(x, Len(s))
              a == 4 + l[1]
              b == a + l[2]
              c == b + l[3]
              d == c + l[4]
              e == d + l[5]
              year == DigitsVal(SubSeq(s, 1, 4))
              month == DigitsVal(SubSeq(s, 5, a))
              day == DayVal(SubSeq(s, a + 1, b))
          IN  IF e # Len(s) THEN Raise("ValueError")
              ELSE IF year < 1 \/ day > DaysInMonth(year, month)
                   THEN Raise("ValueError")
              ELSE [t |-> "datetime", year |-> year, month |-> month,
                    day |-> day, hour |-> DigitsVal(SubSeq(s, c + 1, d)),
                    minute |-> DigitsVal(SubSeq(s, d + 1, e)),
                    tzinfo |-> "None"]

\* datetime.replace(tzinfo=timezone('UTC'))
ReplaceTz(dt, tz) == [dt EXCEPT !.tzinfo = tz]

(***************************************************************************)
(* The functions of raw_noaa_batch_s3.py.                                  *)
(***************************************************************************)

\* as get_station_locations_from_file, with a failure swallowed into an
\* empty directory
get_station_locations_from_file_swallow(file) ==
    IF file.kind = "json" THEN file.value ELSE Dict(<< >>)

\* the outcome of open(filename) / f.readline() / json.loads(raw_json)
get_station_locations_from_file(file) ==
    IF file.kind = "missing" THEN Raise("FileNotFoundError")
    ELSE IF file.kind = "unreadable" THEN Raise("PermissionError")
    ELSE IF file.kind = "notjson" THEN Raise("JSONDecodeError")
    ELSE file.value

parse_USAF(data) == Slice(data, 4, 10)

parse_WBAN(data) == Slice(data, 10, 15)

parse_time(data) ==
    LET raw_date_time == Slice(data, 15, 23) \o <<" ">> \o Slice(data, 23, 27)
        date_time == StrpTime(raw_date_time)
    IN  IF IsRaise(date_time) THEN None ELSE ReplaceTz(date_time, "UTC")

\* as parse_temp, with the ValueError of float() not caught
parse_temp_uncaught(data) ==
    LET f == PyFloatStr(Slice(data, 87, 92))
    IN  IF IsRaise(f) THEN f ELSE DivTen(f)

\* as parse_temp, without the division by 10.0
parse_temp_undivided(data) ==
    LET f == PyFloatStr(Slice(data, 87, 92))
    IN  IF IsRaise(f) THEN None ELSE f

parse_temp(data) ==
    LET f == PyFloatStr(Slice(data, 87, 92))
    IN  IF IsRaise(f) THEN None ELSE DivTen(f)

get_station_location(data) ==
    LET USAF == parse_USAF(data)
        WBAN == parse_WBAN(data)
    IN  DictGet(STATION_LOCATIONS, USAF \o <<"|">> \o WBAN, None)

\* location.get(name, None); on None the attribute lookup raises
LocationGet(location, name) ==
    IF location = None THEN Raise("AttributeError")
    ELSE DictGet(location, name, None)

\* float(location.get(name, None)), an exception of the argument propagating
FloatOfLocation(location, name) ==
    LET v == LocationGet(location, name)
    IN  IF IsRaise(v) THEN v ELSE PyFloat(v)

map_station_id_to_location(data) ==
    LET location == get_station_location(data)
        lat == FloatOfLocation(location, "lat")
        lon == FloatOfLocation(location, "lon")
        measurement_time == parse_time(data)
        temp == parse_temp(data)
    IN  IF IsRaise(lat) THEN lat
        ELSE IF IsRaise(lon) THEN lon
        ELSE Dict([measurement_time |-> measurement_time, lat |-> lat,
                   lon |-> lon, temp |-> temp])

\* as filter_required, testing the fields for truth (0.0 is false) instead
\* of for None
filter_required_truthy(data) ==
    LET falsy(v) == v = None \/ v = Float(0, 0)
    IN  ~(\/ falsy(DictGet(data, "lat", None))
          \/ falsy(DictGet(data, "lon", None))
          \/ falsy(DictGet(data, "measurement_time", None))
          \/ falsy(DictGet(data, "temp", None)))

\* as filter_required, without the test of temp
filter_required_no_temp(data) ==
    ~(\/ DictGet(data, "lat", None) = None
      \/ DictGet(data, "lon", None) = None
      \/ DictGet(data, "measurement_time", None) = None)

filter_required(data) ==
    IF \/ DictGet(data, "lat", None) = None
       \/ DictGet(data, "lon", None) = None
       \/ DictGet(data, "measurement_time", None) = None
       \/ DictGet(data, "temp", None) = None
    THEN FALSE
    ELSE TRUE

(***************************************************************************)
(* toDF() and groupBy(window(...), lat, lon).                              *)
(***************************************************************************)
WindowDuration == 60
StartTime == 30

\* days from 1970-01-01 to the proleptic Gregorian date y-m-d
DaysFromCivil(y, m, d) ==
    LET yy == IF m <= 2 THEN y - 1 ELSE y
        era == yy \div 400
        yoe == yy - era * 400
        mp == (m + 9) % 12
        doy == (153 * mp + 2) \div 5 + d - 1
        doe == yoe * 365 + yoe \div 4 - yoe \div 100 + doy
    IN  era * 146097 + doe - 719468

\* the TimestampType value of a UTC datetime, in minutes since the epoch
Timestamp(dt) ==
    DaysFromCivil(dt.year, dt.month, dt.day) * 1440 + dt.hour * 60 + dt.minute

\* ceil(a / b) for b > 0
CeilDiv(a, b) == 0 - ((0 - a) \div b)

\* as WindowId, without the case of an exact division
WindowIdCeilOnly(ts) == CeilDiv(ts - StartTime, WindowDuration)

\* Spark's window id of a tumbling window: the ceiling of
\* (ts - startTime) / slideDuration, plus one when the division is exact
\* (the timestamp is then the start of its window)
WindowId(ts) ==
    LET c == CeilDiv(ts - StartTime, WindowDuration)
    IN  IF (ts - StartTime) % WindowDuration = 0 THEN c + 1 ELSE c

\* window(timeColumn, "60 minutes", startTime="30 minutes") of a timestamp
window(ts) ==
    LET windowStart == (WindowId(ts) - 1) * WindowDuration + StartTime
    IN  [start |-> windowStart, end |-> windowStart + WindowDuration]

\* the grouping columns of a row
GroupKey(row) ==
    [window |-> window(Timestamp(row.d.measurement_time)),
     lat |-> row.d.lat, lon |-> row.d.lon]

NoGroups == << >>

\* a row joins the group of its key
AddToGroup(g, row) ==
    LET k == GroupKey(row)
    IN  IF k \in DOMAIN g THEN [g EXCEPT ![k] = @ (+) SetToBag({row})]
        ELSE g @@ (k :> SetToBag({row}))

\* as MergeGroups, the second partition's group replacing the first's
MergeGroupsOverwrite(a, b) ==
    [k \in DOMAIN a \cup DOMAIN b |-> IF k \in DOMAIN b THEN b[k] ELSE a[k]]

\* the shuffle: groups of two partitions are united key by key
MergeGroups(a, b) ==
    [k \in DOMAIN a \cup DOMAIN b |->
        IF k \in DOMAIN a /\ k \in DOMAIN b THEN a[k] (+) b[k]
        ELSE IF k \in DOMAIN a THEN a[k] ELSE b[k]]

(***************************************************************************)
(* Inputs: the station directory file and the lines of the S3 object.      *)
(***************************************************************************)
Workers == 1..NumWorkers

Rep(c, n) == [i \in 1..n |-> c]

Station1 == <<"7", "2", "5", "3", "0", "0", "9", "4", "8", "4", "6">>
Station2 == <<"7", "2", "2", "9", "5", "0", "2", "3", "1", "7", "4">>
Station3 == <<"7", "0", "2", "6", "1", "0", "2", "6", "4", "1", "1">>
Station4 == <<"9", "9", "9", "9", "9", "9", "9", "9", "9", "9", "9">>

\* "USAF|WBAN" of an 11-character station id
KeyOf(st) == SubSeq(st, 1, 6) \o <<"|">> \o SubSeq(st, 7, 11)

Loc(lat, lon) == Dict([lat |-> lat, lon |-> lon])

\* a directory whose locations all have numeric lat and lon
DirectoryFull ==
    Dict((KeyOf(Station1) :> Loc(Float(4198, 2), Float(-879, 1)))
         @@ (KeyOf(Station2) :> Loc(Float(3393, 2), Float(-1184, 1))))

\* a directory with a location lacking lat, one lacking lon, and one whose
\* lat is a JSON string
DirectoryPartial ==
    Dict((KeyOf(Station1) :> Loc(Str(<<"4", "1", ".", "5">>), Float(-879, 1)))
         @@ (KeyOf(Station2) :> Dict([lon |-> Float(-1184, 1)]))
         @@ (KeyOf(Station3) :> Dict([lat |-> Float(6482, 2)])))

StationsFiles ==
    {[kind |-> "missing"], [kind |-> "unreadable"], [kind |-> "notjson"],
     [kind |-> "json", value |-> DirectoryFull],
     [kind |-> "json", value |-> DirectoryPartial]}

\* the files of the pipeline specification: the failures and the full directory
PipelineStationsFiles ==
    {f \in StationsFiles : f.kind = "json" => f.value = DirectoryFull}

LineHead == <<"0", "0", "2", "9">>
LineFill == Rep("9", 60)
LineTail == <<"1", "A", "D", "D">>

\* the first n characters of a record with the given fields
MkLine(st, date, time, temp, n) ==
    Slice(LineHead \o st \o date \o time \o LineFill \o temp \o LineTail, 0, n)

Date0 == <<"2", "0", "1", "6", "0", "1", "0", "1">>
Time0 == <<"1", "2", "0", "0">>
Temp0 == <<"+", "0", "1", "5", "0">>

\* the length of a whole record of the inputs
FullLen == Len(LineHead \o Station1 \o Date0 \o Time0 \o LineFill \o Temp0 \o LineTail)

Dates ==
    {Date0,
     <<"2", "0", "1", "6", "0", "2", "2", "9">>,
     <<"2", "0", "1", "5", "0", "2", "2", "9">>,
     <<"1", "9", "6", "9", "1", "2", "3", "1">>,
     <<"0", "0", "0", "0", "0", "1", "0", "1">>,
     <<"2", "0", "1", "6", "1", "3", "0", "1">>,
     <<"2", "0", "1", "6", "0", "1", "0", "0">>,
     <<"2", "0", "1", "6", "A", "B", "0", "1">>,
     <<"2", "0", "1", "6", "1", "1", "1", " ">>,
     <<"2", "0", "1", "6", "0", "1", " ", "1">>,
     <<" ", " ", " ", " ", " ", " ", " ", " ">>}

Times ==
    {Time0,
     <<"1", "0", "1", "5">>,
     <<"1", "0", "4", "5">>,
     <<"0", "0", "0", "0">>,
     <<"2", "3", "5", "9">>,
     <<"2", "4", "0", "0">>,
     <<"1", "2", "6", "0">>,
     <<"1", "2", " ", "0">>,
     <<" ", "2", "0", "0">>,
     <<"+", "1", "0", "0">>,
     <<"A", "A", "A", "A">>}

Temps ==
    {Temp0,
     <<"-", "0", "0", "5", "0">>,
     <<"+", "9", "9", "9", "9">>,
     <<"+", "0", "0", "0", "0">>,
     <<"0", "0", "1", "5", "0">>,
     <<"0", "1", "5", "0", "7">>,
     <<" ", "1", "5", "0", " ">>,
     <<"1", ".", "5", " ", " ">>,
     <<"+", "-", "1", "5", "0">>,
     <<"+", "0", "1", "A", "0">>,
     <<"1", " ", "5", "0", "0">>,
     <<"A", "A", "A", "A", "A">>,
     <<" ", " ", " ", " ", " ">>}

\* lengths at which a record is cut: inside and between the fields
Lengths == {0, 3, 12, 15, 20, 23, 24, 25, 26, 27, 60, 87, 88, 89, 90, 91, 92, 93}

Stations == {Station1, Station2, Station3, Station4}

\* the lines of the decoding specification: one field varied at a time, and
\* the record cut at every length of Lengths
RecordLines ==
    UNION {
        {MkLine(st, d, Time0, Temp0, FullLen) : d \in Dates}
        \cup {MkLine(st, Date0, t, Temp0, FullLen) : t \in Times}
        \cup {MkLine(st, Date0, Time0, c, FullLen) : c \in Temps}
        \cup {MkLine(st, Date0, Time0, c, n) :
                c \in {Temp0, <<"0", "1", "5", "0", "7">>}, n \in Lengths}
        : st \in Stations}

\* the lines of the pipeline specification
PipelineLines ==
    {MkLine(Station1, Date0, <<"1", "0", "1", "5">>, Temp0, FullLen),
     MkLine(Station1, Date0, <<"1", "0", "4", "5">>,
            <<"-", "0", "0", "5", "0">>, FullLen),
     MkLine(Station2, Date0, <<"1", "0", "1", "5">>, Temp0, FullLen),
     MkLine(Station1, Date0, Time0, <<"A", "A", "A", "A", "A">>, FullLen),
     MkLine(Station4, Date0, Time0, Temp0, FullLen)}

SeqsUpTo(S, n) == UNION {[1..k -> S] : k \in 0..n}

(***************************************************************************)
(* The run of __main__ (lines 107-133).  Spark evaluates the map and the   *)
(* filter record by record inside each partition and merges the groups of  *)
(* the partitions; the lines of a partition and the partitions themselves  *)
(* are taken in any order.  An exception in the driver ends the run; one   *)
(* in a task fails the job.                                                *)
(*                                                                         *)
(* Line 133 of the source closes a bracket it never opened and names       *)
(* filtered_data inside its own definition, and no action follows the      *)
(* groupBy.  The run is modelled as the expression reads: every line is    *)
(* mapped, filtered and grouped by (window, lat, lon), a group being the    *)
(* bag of its rows since no aggregate is declared.                         *)
(***************************************************************************)
Idle == [stage |-> "idle"]

Quiet ==
    /\ STATION_LOCATIONS = None
    /\ raw_data = [w \in Workers |-> {}]
    /\ cur = [w \in Workers |-> Idle]
    /\ partial = [w \in Workers |-> NoGroups]
    /\ merged = {}
    /\ groups = NoGroups
    /\ failure = None

Init ==
    /\ pc = "config"
    /\ stations_file \in PipelineStationsFiles
    /\ config_ok \in BOOLEAN
    /\ input \in SeqsUpTo(PipelineLines, MaxLines)
    /\ Quiet
    /\ arg = None
    /\ ret = None

\* config.read("s3_spark.cfg"): a missing file or section is not an error here
ReadConfig ==
    /\ pc = "config"
    /\ pc' = "load"
    /\ UNCHANGED <<stations_file, config_ok, STATION_LOCATIONS, input,
                   raw_data, cur, partial, merged, groups, failure, arg, ret>>

\* STATION_LOCATIONS = get_station_locations_from_file(...)
LoadStations ==
    /\ pc = "load"
    /\ LET r == get_station_locations_from_file(stations_file)
       IN  IF IsRaise(r)
           THEN /\ pc' = "aborted"
                /\ failure' = [at |-> "load", exc |-> r.exc]
                /\ UNCHANGED STATION_LOCATIONS
           ELSE /\ pc' = "context"
                /\ STATION_LOCATIONS' = r
                /\ UNCHANGED failure
    /\ UNCHANGED <<stations_file, config_ok, input, raw_data, cur, partial,
                   merged, groups, arg, ret>>

\* SparkContext, SparkSession, config.get(...): a missing section raises
CreateContext ==
    /\ pc = "context"
    /\ IF config_ok
       THEN pc' = "read" /\ UNCHANGED failure
       ELSE pc' = "aborted" /\ failure' = [at |-> "config", exc |-> "NoSectionError"]
    /\ UNCHANGED <<stations_file, config_ok, STATION_LOCATIONS, input,
                   raw_data, cur, partial, merged, groups, arg, ret>>

\* sc.textFile(...): the lines are split into one partition per worker
TextFile ==
    /\ pc = "read"
    /\ \E split \in [1..Len(input) -> Workers] :
          raw_data' = [w \in Workers |-> {i \in 1..Len(input) : split[i] = w}]
    /\ pc' = "job"
    /\ UNCHANGED <<stations_file, config_ok, STATION_LOCATIONS, input, cur,
                   partial, merged, groups, failure, arg, ret>>

\* .map(map_station_id_to_location) on the next line of a partition
Map(w) ==
    /\ pc = "job"
    /\ cur[w].stage \in {"idle", "dropped"}
    /\ \E i \in raw_data[w] :
          LET r == map_station_id_to_location(input[i])
          IN  /\ raw_data' = [raw_data EXCEPT ![w] = @ \ {i}]
              /\ IF IsRaise(r)
                 THEN /\ pc' = "failed"
                      /\ failure' = [at |-> "map", line |-> input[i],
                                     exc |-> r.exc]
                      /\ UNCHANGED cur
                 ELSE /\ cur' = [cur EXCEPT ![w] =
                                   [stage |-> "mapped", line |-> input[i],
                                    rec |-> r]]
                      /\ UNCHANGED <<pc, failure>>
    /\ UNCHANGED <<stations_file, config_ok, STATION_LOCATIONS, input,
                   partial, merged, groups, arg, ret>>

\* .filter(filter_required) on the mapped record
Filter(w) ==
    /\ pc = "job"
    /\ cur[w].stage = "mapped"
    /\ cur' = [cur EXCEPT ![w].stage =
                 IF filter_required(cur[w].rec) THEN "kept" ELSE "dropped"]
    /\ UNCHANGED <<pc, stations_file, config_ok, STATION_LOCATIONS, input,
                   raw_data, partial, merged, groups, failure, arg, ret>>

\* .toDF().groupBy(window(...), lat, lon) on a record the filter kept
Group(w) ==
    /\ pc = "job"
    /\ cur[w].stage = "kept"
    /\ partial' = [partial EXCEPT ![w] = AddToGroup(@, cur[w].rec)]
    /\ cur' = [cur EXCEPT ![w] = Idle]
    /\ UNCHANGED <<pc, stations_file, config_ok, STATION_LOCATIONS, input,
                   raw_data, merged, groups, failure, arg, ret>>

\* a finished partition hands its groups to the shuffle
Merge(w) ==
    /\ pc = "job"
    /\ w \notin merged
    /\ raw_data[w] = {}
    /\ cur[w].stage \in {"idle", "dropped"}
    /\ groups' = MergeGroups(groups, partial[w])
    /\ merged' = merged \cup {w}
    /\ cur' = [cur EXCEPT ![w] = Idle]
    /\ UNCHANGED <<pc, stations_file, config_ok, STATION_LOCATIONS, input,
                   raw_data, partial, failure, arg, ret>>

Finish ==
    /\ pc = "job"
    /\ merged = Workers
    /\ pc' = "done"
    /\ UNCHANGED <<stations_file, config_ok, STATION_LOCATIONS, input,
                   raw_data, cur, partial, merged, groups, failure, arg, ret>>

Next ==
    \/ ReadConfig
    \/ LoadStations
    \/ CreateContext
    \/ TextFile
    \/ \E w \in Workers : Map(w)
    \/ \E w \in Workers : Filter(w)
    \/ \E w \in Workers : Group(w)
    \/ \E w \in Workers : Merge(w)
    \/ Finish

Spec == Init /\ [][Next]_vars

\* the same run on one line drawn from RecordLines
InitRecord ==
    /\ pc = "config"
    /\ stations_file \in StationsFiles
    /\ config_ok \in BOOLEAN
    /\ input \in {<<l>> : l \in RecordLines}
    /\ Quiet
    /\ arg = None
    /\ ret = None

SpecRecord == InitRecord /\ [][Next]_vars

(***************************************************************************)
(* filter_required called on any dict: each required key is missing, None  *)
(* or a value (0.0 among them).                                            *)
(***************************************************************************)
RequiredFields == {"lat", "lon", "measurement_time", "temp"}

Missing == [t |-> "missing"]

Noon == [t |-> "datetime", year |-> 2016, month |-> 1, day |-> 1,
         hour |-> 12, minute |-> 0, tzinfo |-> "UTC"]

FieldValues(k) ==
    IF k = "measurement_time" THEN {Missing, None, Noon}
    ELSE {Missing, None, Float(0, 0), Float(4198, 2)}

FilterArgs ==
    {Dict([k \in {x \in RequiredFields : c[x] # Missing} |-> c[k]]) :
        c \in {f \in [RequiredFields -> {Missing, None, Noon, Float(0, 0),
                                         Float(4198, 2)}] :
                 \A k \in RequiredFields : f[k] \in FieldValues(k)}}

PyBool(b) == [t |-> "bool", v |-> b]

NoRun ==
    /\ stations_file = [kind |-> "missing"]
    /\ config_ok = FALSE
    /\ input = << >>
    /\ Quiet

InitFilter ==
    /\ pc = "filter"
    /\ NoRun
    /\ arg \in FilterArgs
    /\ ret = None

\* ret = filter_required(arg); the dict is only read
CallFilter ==
    /\ pc = "filter"
    /\ ret' = PyBool(filter_required(arg))
    /\ pc' = "returned"
    /\ UNCHANGED <<stations_file, config_ok, STATION_LOCATIONS, input,
                   raw_data, cur, partial, merged, groups, failure, arg>>

SpecFilter == InitFilter /\ [][CallFilter]_vars

(***************************************************************************)
(* window(...) called on any timestamp of the range -MaxTs..MaxTs.         *)
(***************************************************************************)
InitWindow ==
    /\ pc = "window"
    /\ NoRun
    /\ arg \in {[t |-> "timestamp", v |-> n] : n \in (0 - MaxTs)..MaxTs}
    /\ ret = None

CallWindow ==
    /\ pc = "window"
    /\ ret' = window(arg.v)
    /\ pc' = "returned"
    /\ UNCHANGED <<stations_file, config_ok, STATION_LOCATIONS, input,
                   raw_data, cur, partial, merged, groups, failure, arg>>

SpecWindow == InitWindow /\ [][CallWindow]_vars

(***************************************************************************)
(* Properties.                                                             *)
(***************************************************************************)
StationKey(line) == Slice(line, 4, 10) \o <<"|">> \o Slice(line, 10, 15)

Loaded == STATION_LOCATIONS # None

Resolves(line) == Loaded /\ StationKey(line) \in DOMAIN STATION_LOCATIONS.d

\* the records a worker holds after the map
Held == {w \in Workers : cur[w].stage \in {"mapped", "kept", "dropped"}}

MapFailed == failure # None /\ failure.at = "map"

\* C1: a line whose station key USAF|WBAN is not in the Station Directory
\* never makes map_station_id_to_location raise, and its record never
\* reaches the grouping stage.
C1_UnresolvedKeyIsDropped ==
    /\ MapFailed => Resolves(failure.line)
    /\ \A w \in Workers : cur[w].stage = "kept" => Resolves(cur[w].line)

\* the line with character a+1.. replaced by the characters of v, as far as
\* the line reaches
SetField(line, a, v) ==
    [i \in 1..Len(line) |->
        IF i > a /\ i <= a + Len(v) THEN v[i - a] ELSE line[i]]

\* C2: on every line parse_time and parse_temp each give a value or None,
\* never an exception, and the result of one does not change when only the
\* characters read by the other change.
C2_SubParsesIndependent ==
    \A w \in Held :
        LET line == cur[w].line
            rec == cur[w].rec.d
        IN  /\ rec.measurement_time.t \in {"None", "datetime"}
            /\ rec.temp.t \in {"None", "float"}
            /\ \A d \in Dates, t \in Times :
                  parse_temp(SetField(line, 15, d \o t)) = rec.temp
            /\ \A c \in Temps :
                  parse_time(SetField(line, 87, c)) = rec.measurement_time

C2_Witness ==
    \E w \in Held :
        /\ cur[w].rec.d.temp = None
        /\ cur[w].rec.d.measurement_time # None
        /\ Len(cur[w].line) >= 92

\* characters a numeric field may be made of, read generously
NumericChars == Digits \cup {"+", "-", ".", " "}

FullWidthNumeric(s, n) ==
    Len(s) = n /\ \A i \in 1..Len(s) : s[i] \in NumericChars

\* C3: when the line is shorter than 92 characters or the temperature
\* substring is not five numeric characters, temp is absent and the record
\* is rejected; likewise measurement_time when the date and time substrings
\* are not eight and four numeric characters.  A cut-off slice is never
\* accepted as a value.
C3_TruncatedFieldIsAbsent ==
    \A w \in Held :
        LET line == cur[w].line
            rec == cur[w].rec.d
        IN  /\ (Len(line) < 92 \/ ~FullWidthNumeric(Slice(line, 87, 92), 5))
                 => rec.temp = None /\ cur[w].stage # "kept"
            /\ (\/ ~FullWidthNumeric(Slice(line, 15, 23), 8)
                \/ ~FullWidthNumeric(Slice(line, 23, 27), 4))
                 => rec.measurement_time = None /\ cur[w].stage # "kept"

\* a field of the wire format: n characters, all digits after an optional sign
SignedInt(s, n) ==
    /\ Len(s) = n
    /\ AllDigits(IF s[1] \in {"+", "-"} THEN Tail(s) ELSE s)

SignedVal(s) ==
    IF s[1] = "-" THEN 0 - DigitsVal(Tail(s))
    ELSE IF s[1] = "+" THEN DigitsVal(Tail(s)) ELSE DigitsVal(s)

NumericLocation(loc) ==
    /\ loc # None
    /\ {"lat", "lon"} \subseteq DOMAIN loc.d
    /\ loc.d.lat.t = "float" /\ loc.d.lon.t = "float"

\* the line is a full record: 92 characters or more, station in the
\* directory with numeric coordinates, YYYYMMDD a calendar date, HHMM a time
\* of day, temperature a signed integer
WellFormed(line) ==
    /\ Len(line) >= 92
    /\ Resolves(line)
    /\ NumericLocation(STATION_LOCATIONS.d[StationKey(line)])
    /\ AllDigits(Slice(line, 15, 27))
    /\ LET y == DigitsVal(Slice(line, 15, 19))
           m == DigitsVal(Slice(line, 19, 21))
           d == DigitsVal(Slice(line, 21, 23))
       IN  y >= 1 /\ m \in 1..12 /\ d >= 1 /\ d <= DaysInMonth(y, m)
    /\ DigitsVal(Slice(line, 23, 25)) <= 23
    /\ DigitsVal(Slice(line, 25, 27)) <= 59
    /\ SignedInt(Slice(line, 87, 92), 5)

ExampleLine == MkLine(Station1, Date0, Time0, Temp0, FullLen)

\* C4: a full, well-formed record is kept, with the coordinates of the
\* directory entry of its station, measurement_time the UTC instant its
\* characters 15-27 spell, and temp a tenth of the integer of characters
\* 87-92 (+0150 at 20160101 1200 gives 15.0 at 2016-01-01T12:00Z).
C4_WellFormedRecordKept ==
    /\ MapFailed => ~WellFormed(failure.line)
    /\ \A w \in Held :
          LET line == cur[w].line
              rec == cur[w].rec.d
              loc == STATION_LOCATIONS.d[StationKey(line)].d
          IN  WellFormed(line) =>
                /\ cur[w].stage # "dropped"
                /\ rec.lat = loc.lat /\ rec.lon = loc.lon
                /\ rec.measurement_time =
                     [t |-> "datetime",
                      year |-> DigitsVal(Slice(line, 15, 19)),
                      month |-> DigitsVal(Slice(line, 19, 21)),
                      day |-> DigitsVal(Slice(line, 21, 23)),
                      hour |-> DigitsVal(Slice(line, 23, 25)),
                      minute |-> DigitsVal(Slice(line, 25, 27)),
                      tzinfo |-> "UTC"]
                /\ rec.temp.t = "float"
                /\ rec.temp.m * 10
                     = SignedVal(Slice(line, 87, 92)) * Pow10(rec.temp.e)
                /\ line = ExampleLine =>
                     rec.temp = [t |-> "float", m |-> 15, e |-> 0]
                     /\ rec.measurement_time = Noon

C4_Witness ==
    \E w \in Workers :
        /\ cur[w].stage = "kept"
        /\ cur[w].line = ExampleLine
        /\ cur[w].rec.d.temp = [t |-> "float", m |-> 15, e |-> 0]

Absent(data, k) == k \notin DOMAIN data.d \/ data.d[k] = None

\* C5: filter_required returns False exactly when one of lat, lon,
\* measurement_time, temp is missing or None, True otherwise, and leaves the
\* record as it was.
C5_FilterIffAllPresent ==
    [][pc' = "returned" =>
         /\ arg' = arg
         /\ ret'.v = ~(\E k \in RequiredFields : Absent(arg, k))]_vars

C5_Witness ==
    /\ pc = "returned"
    /\ ret.v = FALSE
    /\ "temp" \notin DOMAIN arg.d
    /\ \A k \in RequiredFields \ {"temp"} : ~Absent(arg, k)

\* an instant epoch + 30 min + k * 60 min
Boundary(b) == (b - 30) % 60 = 0

\* C6: a timestamp t lies in exactly one window [start, start + 60 min),
\* whose start is the greatest instant epoch + 30 min + k * 60 min that is
\* <= t; 10:15 lies in [09:30, 10:30), 10:45 in [10:30, 11:30), and the
\* window of t + 60 min is the window of t moved by 60 minutes.
C6_WindowTiling ==
    pc = "returned" =>
        LET t == arg.v
        IN  /\ ret.end = ret.start + 60
            /\ Boundary(ret.start)
            /\ ret.start <= t /\ t < ret.end
            /\ \A b \in (t - 120)..(t + 120) :
                  Boundary(b) /\ b <= t => b <= ret.start
            /\ \A b \in (t - 120)..(t + 120) :
                  Boundary(b) /\ b <= t /\ t < b + 60 => b = ret.start
            /\ window(t + 60) = [start |-> ret.start + 60, end |-> ret.end + 60]
            /\ t = 615 => ret = [start |-> 570, end |-> 630]
            /\ t = 645 => ret = [start |-> 630, end |-> 690]

C6_Witness ==
    /\ pc = "returned"
    /\ arg.v = 615
    /\ ret = [start |-> 570, end |-> 630]

\* something of the input has been read or processed
Touched ==
    \/ pc \in {"job", "done", "failed"}
    \/ \E w \in Workers :
          raw_data[w] # {} \/ cur[w] # Idle \/ partial[w] # NoGroups
    \/ merged # {}
    \/ groups # NoGroups

\* C8: no line is read or processed before the Station Directory is loaded,
\* and when the load fails the run aborts with nothing decoded, enriched,
\* filtered or grouped.
C8_LoadBeforeLines ==
    /\ Touched => Loaded
    /\ stations_file.kind # "json" =>
          /\ pc \in {"config", "load", "aborted"}
          /\ ~Loaded
          /\ ~Touched

C8_Witness ==
    /\ pc = "aborted"
    /\ failure # None /\ failure.at = "load"
    /\ Len(input) > 0
    /\ ~Touched

\* the groups of the lines taken one after the other on a single worker
RECURSIVE GroupsOfFirst(_)
GroupsOfFirst(n) ==
    IF n = 0 THEN NoGroups
    ELSE LET r == map_station_id_to_location(input[n])
         IN  IF ~IsRaise(r) /\ filter_required(r)
             THEN AddToGroup(GroupsOfFirst(n - 1), r)
             ELSE GroupsOfFirst(n - 1)

Complete(row) == \A k \in RequiredFields : ~Absent(row, k)

\* C10: every record at the grouping stage (kept by the filter, in a
\* partition's groups, or in the merged groups) has measurement_time, lat,
\* lon and temp present.
C10_GroupedRecordsComplete ==
    /\ \A w \in Workers : cur[w].stage = "kept" => Complete(cur[w].rec)
    /\ \A w \in Workers : \A k \in DOMAIN partial[w] :
          \A row \in BagToSet(partial[w][k]) : Complete(row)
    /\ \A k \in DOMAIN groups :
          \A row \in BagToSet(groups[k]) : Complete(row)

C10_Witness ==
    /\ \E w \in Workers : cur[w].stage = "dropped"
    /\ \E w \in Workers : partial[w] # NoGroups

\* the location of the station, when the directory has one
LocationOf(line) == STATION_LOCATIONS.d[StationKey(line)]

LacksCoordinate(line) ==
    /\ Resolves(line)
    /\ LocationOf(line) # None
    /\ \E k \in {"lat", "lon"} : k \notin DOMAIN LocationOf(line).d

\* C7: when the location of the station lacks lat or lon,
\* map_station_id_to_location does not raise; it returns a record in which
\* that coordinate is None, and filter_required rejects it.
C7_MissingCoordinateIsAbsent ==
    /\ MapFailed => ~LacksCoordinate(failure.line)
    /\ \A w \in Held :
          LacksCoordinate(cur[w].line) =>
             /\ \A k \in {"lat", "lon"} :
                   k \notin DOMAIN LocationOf(cur[w].line).d
                      => cur[w].rec.d[k] = None
             /\ cur[w].stage # "kept"

====
